---------------------------- MODULE Spec2Model ----------------------------
(***************************************************************************)
(* tr2make: a one-shot Makefile generator (src/src/main.rs).               *)
(*                                                                         *)
(* main() reads the project description .tr2make, takes the build mode     *)
(* from the command line, creates build/<mode>-<architecture>, derives     *)
(* compiler, extension and flags, renders the Makefile text and writes it  *)
(* into that directory.  Every failure is a panic that ends the process.   *)
(*                                                                         *)
(* The model follows main() statement by statement.  Text is kept as TLA+  *)
(* strings; the Makefile is the sequence of its lines, each line ending in *)
(* a newline in the file.  The filesystem is the set of existing           *)
(* directories and a map from file paths to contents.  The generator may   *)
(* be invoked again on the filesystem an earlier invocation left behind.   *)
(***************************************************************************)
EXTENDS Integers, Sequences, FiniteSets, TLC

VARIABLES
    windows,            \* cfg!(target_os = "windows") of the build that runs
    file,               \* the document .tr2make, or NoFile
    argv,               \* the command line's mode argument
    pc,                 \* position of main()
    config,             \* main's `config`
    args,               \* main's `args.model`
    build_dir,          \* main's `build_dir`
    lang,               \* main's (file_ext, compiler, std_prefix)
    files,              \* main's filtered `files`
    makefile_content,   \* main's `makefile_content`
    makefile_path,      \* main's `makefile_path`
    dirs,               \* filesystem: the directories that exist
    fsfiles,            \* filesystem: path -> content of the regular files
    stdout,             \* what this invocation printed
    outcome,            \* "running", "ok", or the panic that ended the run
    steps,              \* the statements of main() this invocation completed
    dirs0,              \* `dirs` when this invocation started
    fsfiles0,           \* `fsfiles` when this invocation started
    prev,               \* the previous invocation's inputs and results
    runs                \* number of invocations so far, this one included

vars == << windows, file, argv, pc, config, args, build_dir, lang, files,
           makefile_content, makefile_path, dirs, fsfiles, stdout, outcome,
           steps, dirs0, fsfiles0, prev, runs >>

-----------------------------------------------------------------------------
(* Bounds and input sets *)

MaxFiles == 2
MaxRuns == 2

Languages == {"c", "c++", "rust"}
Standards == {17, 20}
FileNames == {"a.c", "b.cpp"}
ExampleFiles == << "a.c", "b.cpp", "c.c" >>
Targets == {"app"}
Architectures == {"x64", "x86", "arm"}
TargetDirs == {"out", "bin"}
CliArgs == {"debug", "release"}
ModeNames == {"debug", "release"}

\* Values of what is absent or not yet computed
NoFile == [absent |-> TRUE]
NoConfig == [absent |-> TRUE]
NoTriple == [file_ext |-> "", compiler |-> "", std_prefix |-> ""]
NoPath == [dir |-> "", name |-> ""]
NoResult == [absent |-> TRUE]

RECURSIVE SeqsUpTo(_, _)
SeqsUpTo(S, n) ==
    IF n = 0 THEN { << >> }
    ELSE LET shorter == SeqsUpTo(S, n - 1)
         IN  shorter \cup { Append(s, x) : s \in shorter, x \in S }

FileLists == SeqsUpTo(FileNames, MaxFiles) \cup { ExampleFiles }

\* The model table of a document: any subset of the two mode entries.
ModelTables ==
    UNION { [ present -> [targetdir : TargetDirs] ] : present \in SUBSET ModeNames }

\* A document as first written names one output directory; later edits of
\* the targetdir values (TargetdirEdits) reach every table of ModelTables.
InitialModelTables ==
    { t \in ModelTables : \A m \in DOMAIN t : t[m].targetdir = "out" }

Documents ==
    [ language : Languages, standard : Standards, files : FileLists,
      target : Targets, architecture : Architectures,
      model : InitialModelTables ]

-----------------------------------------------------------------------------
(* Text helpers *)

Char(s, i) == SubSeq(s, i, i)

\* A faulty EndsWith: str::contains in place of str::ends_with
ContainsText(s, suffix) ==
    \E i \in 1..(Len(s) - Len(suffix) + 1) :
        SubSeq(s, i, i + Len(suffix) - 1) = suffix

\* str::ends_with
EndsWith(s, suffix) ==
    /\ Len(s) >= Len(suffix)
    /\ SubSeq(s, Len(s) - Len(suffix) + 1, Len(s)) = suffix

LowerAlphabet == "abcdefghijklmnopqrstuvwxyz"
UpperAlphabet == "ABCDEFGHIJKLMNOPQRSTUVWXYZ"

UpperChar(ch) ==
    IF \E i \in 1..Len(LowerAlphabet) : Char(LowerAlphabet, i) = ch
    THEN Char(UpperAlphabet,
              CHOOSE i \in 1..Len(LowerAlphabet) : Char(LowerAlphabet, i) = ch)
    ELSE ch

\* str::to_uppercase
RECURSIVE ToUppercase(_)
ToUppercase(s) ==
    IF Len(s) = 0 THEN "" ELSE UpperChar(Head(s)) \o ToUppercase(Tail(s))

Digits == "0123456789"

\* Display of a non-negative integer serde_yaml::Number
RECURSIVE NumberDisplay(_)
NumberDisplay(n) ==
    IF n < 10 THEN Char(Digits, n + 1)
    ELSE NumberDisplay(n \div 10) \o Char(Digits, (n % 10) + 1)

\* [String]::join
RECURSIVE Join(_, _)
Join(ss, sep) ==
    IF Len(ss) = 0 THEN ""
    ELSE IF Len(ss) = 1 THEN ss[1]
    ELSE ss[1] \o sep \o Join(Tail(ss), sep)

\* Iterator::filter(...).cloned().collect()
RECURSIVE FilterFiles(_, _)
FilterFiles(fs, ext) ==
    IF Len(fs) = 0 THEN << >>
    ELSE IF EndsWith(Head(fs), ext)
         THEN << Head(fs) >> \o FilterFiles(Tail(fs), ext)
         ELSE FilterFiles(Tail(fs), ext)

-----------------------------------------------------------------------------
(* Configuration loading and command line *)

RequiredFields ==
    {"language", "standard", "files", "target", "architecture", "model"}

\* A faulty Deserializes: the release entry of the model table is optional
DeserializesDebugOnly(doc) ==
    /\ RequiredFields \subseteq DOMAIN doc
    /\ "debug" \in DOMAIN doc.model
    /\ \A m \in DOMAIN doc.model : "targetdir" \in DOMAIN doc.model[m]

\* fs::File::open(".tr2make") returns Ok, then serde_yaml::from_reader does:
\* #[derive(Deserialize)] on Config, BuildModels, BuildConfig makes every
\* field required, none is optional.
Deserializes(doc) ==
    /\ RequiredFields \subseteq DOMAIN doc
    /\ {"debug", "release"} \subseteq DOMAIN doc.model
    /\ \A m \in {"debug", "release"} : "targetdir" \in DOMAIN doc.model[m]

\* clap's ValueEnum for BuildModel
ParseBuildModel(a) == IF a = "debug" THEN "Debug" ELSE "Release"

\* BuildModel::as_str
as_str(m) == IF m = "Debug" THEN "debug" ELSE "release"

BuildDir(m, cfg) == "build/" \o as_str(m) \o "-" \o cfg.architecture

-----------------------------------------------------------------------------
(* Derivation *)

SupportedLanguages == {"c", "c++"}

\* A faulty LanguageTriple: C++ sources handed to gcc
LanguageTripleGccForCpp(language) ==
    IF language = "c"
    THEN [file_ext |-> ".c", compiler |-> "gcc", std_prefix |-> "c"]
    ELSE [file_ext |-> ".cpp", compiler |-> "gcc", std_prefix |-> "c++"]

LanguageTriple(language) ==
    IF language = "c"
    THEN [file_ext |-> ".c", compiler |-> "gcc", std_prefix |-> "c"]
    ELSE [file_ext |-> ".cpp", compiler |-> "g++", std_prefix |-> "c++"]

TargetName(cfg, win) == IF win THEN cfg.target \o ".exe" ELSE cfg.target

CleanCmd(win) ==
    IF win THEN "del /Q $(OBJ) $(TARGET)" ELSE "rm -f $(OBJ) $(TARGET)"

MkdirCmd(win) ==
    IF win THEN "@if not exist \"$(OBJ_DIR)\" mkdir \"$(OBJ_DIR)\""
    ELSE "@mkdir -p $(OBJ_DIR)"

\* A faulty March: the fallback spells the flag -march=<architecture>
MarchFallbackMarch(architecture) ==
    IF architecture = "x64" THEN "-m64"
    ELSE IF architecture = "x86" THEN "-m32"
    ELSE "-march=" \o architecture

March(architecture) ==
    IF architecture = "x64" THEN "-m64"
    ELSE IF architecture = "x86" THEN "-m32"
    ELSE "-m" \o architecture

DebugFlag(m) == IF m = "Debug" THEN "1" ELSE "0"

\* A faulty Optimization: the two branches swapped
OptimizationSwapped(debug_flag) ==
    IF debug_flag = "1" THEN "-O2" ELSE "-g -O0 -DDEBUG"

Optimization(debug_flag) == IF debug_flag = "1" THEN "-g -O0 -DDEBUG" ELSE "-O2"

\* A faulty TargetDirText: the configured targetdir of the mode is used
TargetDirFromConfig(dir, cfg, m) == cfg.model[as_str(m)].targetdir

\* The named argument target_dir = build_dir of the template
TargetDirText(dir, cfg, m) == dir

\* format!(r#"..."#, ...): the Makefile, line by line
Render(cfg, m, dir, triple, srcs, win) ==
    << "# " \o ToUppercase(cfg.language) \o " Project Makefile",
       "CC := " \o triple.compiler,
       "SRC := " \o Join(srcs, " "),
       "TARGET := " \o TargetDirText(dir, cfg, m) \o "/" \o TargetName(cfg, win),
       "STD := " \o triple.std_prefix \o NumberDisplay(cfg.standard),
       "ARCH := " \o cfg.architecture,
       "DEBUG := " \o DebugFlag(m),
       "",
       "OBJ_DIR := " \o TargetDirText(dir, cfg, m) \o "/obj",
       "OBJ := $(addprefix $(OBJ_DIR)/, $(SRC:" \o triple.file_ext \o "=.o))",
       "",
       "CFLAGS := " \o Optimization(DebugFlag(m)) \o " -std=$(STD) "
           \o March(cfg.architecture),
       "LDFLAGS := " \o March(cfg.architecture),
       "",
       "all: create_dirs $(TARGET)",
       "",
       "$(TARGET): $(OBJ)",
       "\t$(CC) $^ -o $@ $(LDFLAGS)",
       "",
       "$(OBJ_DIR)/%.o: %" \o triple.file_ext,
       "\t" \o MkdirCmd(win),
       "\t$(CC) $(CFLAGS) -c $< -o $@",
       "",
       "create_dirs:",
       "\t" \o MkdirCmd(win),
       "",
       "clean:",
       "\t" \o CleanCmd(win),
       "",
       ".PHONY: all clean create_dirs" >>

-----------------------------------------------------------------------------
(* Filesystem *)

\* fs::create_dir_all: the directory and every missing ancestor
DirAndAncestors(p) ==
    { SubSeq(p, 1, k - 1) : k \in { i \in 2..Len(p) : Char(p, i) = "/" } } \cup {p}

\* Path::new(dir).join(name)
PathJoin(dir, name) == [dir |-> dir, name |-> name]

\* Path::display
PathDisplay(p, win) == p.dir \o (IF win THEN "\\" ELSE "/") \o p.name

\* A faulty WriteFile: an existing file is appended to
WriteFileAppends(fs, p, content) ==
    [ q \in DOMAIN fs \cup {p} |->
        IF q # p THEN fs[q]
        ELSE IF p \in DOMAIN fs THEN fs[p] \o content ELSE content ]

\* fs::write: create the file or replace its whole content
WriteFile(fs, p, content) ==
    [ q \in DOMAIN fs \cup {p} |-> IF q = p THEN content ELSE fs[q] ]

NoFiles == [ q \in {} |-> << >> ]

-----------------------------------------------------------------------------
(* main() *)

Panic(kind) ==
    /\ outcome' = kind
    /\ pc' = "done"

\* line 55
LoadConfig ==
    /\ pc = "load"
    /\ IF Deserializes(file)
       THEN /\ config' = file
            /\ pc' = "args"
            /\ steps' = Append(steps, "load")
            /\ UNCHANGED outcome
       ELSE /\ Panic("ConfigurationError")
            /\ UNCHANGED << config, steps >>
    /\ UNCHANGED << windows, file, argv, args, build_dir, lang, files,
                    makefile_content, makefile_path, dirs, fsfiles, stdout,
                    dirs0, fsfiles0, prev, runs >>

\* lines 56, 58
ParseArgs ==
    /\ pc = "args"
    /\ args' = ParseBuildModel(argv)
    /\ build_dir' = BuildDir(args', config)
    /\ pc' = "create_dir"
    /\ UNCHANGED << windows, file, argv, config, lang, files,
                    makefile_content, makefile_path, dirs, fsfiles, stdout,
                    outcome, steps, dirs0, fsfiles0, prev, runs >>

\* line 59, the directory tree is created
CreateDirAll ==
    /\ pc = "create_dir"
    /\ dirs' = dirs \cup DirAndAncestors(build_dir)
    /\ steps' = Append(steps, "create_dir_all")
    /\ pc' = "language"
    /\ UNCHANGED << windows, file, argv, config, args, build_dir, lang, files,
                    makefile_content, makefile_path, fsfiles, stdout,
                    outcome, dirs0, fsfiles0, prev, runs >>

\* line 59, create_dir_all returns Err and unwrap panics
CreateDirAllFails ==
    /\ pc = "create_dir"
    /\ Panic("IOError")
    /\ UNCHANGED << windows, file, argv, config, args, build_dir, lang, files,
                    makefile_content, makefile_path, dirs, fsfiles, stdout,
                    steps, dirs0, fsfiles0, prev, runs >>

\* lines 61-65
MatchLanguage ==
    /\ pc = "language"
    /\ IF config.language \in SupportedLanguages
       THEN /\ lang' = LanguageTriple(config.language)
            /\ steps' = Append(steps, "language")
            /\ pc' = "filter"
            /\ UNCHANGED outcome
       ELSE /\ Panic("UnsupportedLanguage")
            /\ UNCHANGED << lang, steps >>
    /\ UNCHANGED << windows, file, argv, config, args, build_dir, files,
                    makefile_content, makefile_path, dirs, fsfiles, stdout,
                    dirs0, fsfiles0, prev, runs >>

\* A faulty FilterSources: the is_empty check is missing
FilterSourcesUnchecked ==
    /\ pc = "filter"
    /\ files' = FilterFiles(config.files, lang.file_ext)
    /\ steps' = Append(steps, "filter")
    /\ pc' = "render"
    /\ UNCHANGED << windows, file, argv, config, args, build_dir, lang,
                    makefile_content, makefile_path, dirs, fsfiles, stdout,
                    outcome, dirs0, fsfiles0, prev, runs >>

\* lines 67-75
FilterSources ==
    /\ pc = "filter"
    /\ files' = FilterFiles(config.files, lang.file_ext)
    /\ IF Len(files') = 0
       THEN /\ Panic("EmptySourceSet")
            /\ UNCHANGED steps
       ELSE /\ steps' = Append(steps, "filter")
            /\ pc' = "render"
            /\ UNCHANGED outcome
    /\ UNCHANGED << windows, file, argv, config, args, build_dir, lang,
                    makefile_content, makefile_path, dirs, fsfiles, stdout,
                    dirs0, fsfiles0, prev, runs >>

\* lines 77-147
RenderMakefile ==
    /\ pc = "render"
    /\ makefile_content' = Render(config, args, build_dir, lang, files, windows)
    /\ makefile_path' = PathJoin(build_dir, "Makefile")
    /\ steps' = Append(steps, "render")
    /\ pc' = "write"
    /\ UNCHANGED << windows, file, argv, config, args, build_dir, lang, files,
                    dirs, fsfiles, stdout, outcome, dirs0, fsfiles0, prev, runs >>

\* line 148, the file is written
WriteMakefile ==
    /\ pc = "write"
    /\ makefile_path.dir \in dirs
    /\ fsfiles' = WriteFile(fsfiles, makefile_path, makefile_content)
    /\ steps' = Append(steps, "write")
    /\ pc' = "print"
    /\ UNCHANGED << windows, file, argv, config, args, build_dir, lang, files,
                    makefile_content, makefile_path, dirs, stdout, outcome,
                    dirs0, fsfiles0, prev, runs >>

\* line 148, fs::write returns Err and unwrap panics
WriteMakefileFails ==
    /\ pc = "write"
    /\ Panic("IOError")
    /\ UNCHANGED << windows, file, argv, config, args, build_dir, lang, files,
                    makefile_content, makefile_path, dirs, fsfiles, stdout,
                    steps, dirs0, fsfiles0, prev, runs >>

\* line 150
PrintPath ==
    /\ pc = "print"
    /\ stdout' = Append(stdout, "Makefile generated at: "
                                    \o PathDisplay(makefile_path, windows))
    /\ steps' = Append(steps, "print")
    /\ outcome' = "ok"
    /\ pc' = "done"
    /\ UNCHANGED << windows, file, argv, config, args, build_dir, lang, files,
                    makefile_content, makefile_path, dirs, fsfiles,
                    dirs0, fsfiles0, prev, runs >>

-----------------------------------------------------------------------------
(* Invocations *)

\* The documents that differ from doc at most in the targetdir values.
TargetdirEdits(doc) ==
    IF "model" \notin DOMAIN doc THEN { doc }
    ELSE { [doc EXCEPT !.model = t] :
             t \in { u \in ModelTables : DOMAIN u = DOMAIN doc.model } }

Result ==
    [ file |-> file, argv |-> argv, outcome |-> outcome,
      path |-> makefile_path, content |-> makefile_content ]

\* The generator is invoked again in the same working directory, with the
\* same inputs, with another mode argument, or after the targetdir values of
\* .tr2make were edited.
Reinvoke ==
    /\ pc = "done"
    /\ runs < MaxRuns
    /\ \E doc \in TargetdirEdits(file), a \in CliArgs :
         /\ doc = file \/ a = argv
         /\ file' = doc
         /\ argv' = a
    /\ prev' = Result
    /\ runs' = runs + 1
    /\ pc' = "load"
    /\ config' = NoConfig
    /\ args' = ""
    /\ build_dir' = ""
    /\ lang' = NoTriple
    /\ files' = << >>
    /\ makefile_content' = << >>
    /\ makefile_path' = NoPath
    /\ stdout' = << >>
    /\ outcome' = "running"
    /\ steps' = << >>
    /\ dirs0' = dirs
    /\ fsfiles0' = fsfiles
    /\ UNCHANGED << windows, dirs, fsfiles >>

Init ==
    /\ windows \in BOOLEAN
    /\ file \in Documents \cup { NoFile }
    /\ argv \in CliArgs
    /\ pc = "load"
    /\ config = NoConfig
    /\ args = ""
    /\ build_dir = ""
    /\ lang = NoTriple
    /\ files = << >>
    /\ makefile_content = << >>
    /\ makefile_path = NoPath
    /\ dirs = {}
    /\ fsfiles = NoFiles
    /\ stdout = << >>
    /\ outcome = "running"
    /\ steps = << >>
    /\ dirs0 = {}
    /\ fsfiles0 = NoFiles
    /\ prev = NoResult
    /\ runs = 1

Next ==
    \/ LoadConfig
    \/ ParseArgs
    \/ CreateDirAll
    \/ CreateDirAllFails
    \/ MatchLanguage
    \/ FilterSources
    \/ RenderMakefile
    \/ WriteMakefile
    \/ WriteMakefileFails
    \/ PrintPath
    \/ Reinvoke

Spec == Init /\ [][Next]_vars

-----------------------------------------------------------------------------
(* Vocabulary of the properties *)

Done == pc = "done"

StepDone(s) == \E i \in 1..Len(steps) : steps[i] = s

Before(a, b) ==
    \A i \in 1..Len(steps) :
        steps[i] = b => \E j \in 1..(i - 1) : steps[j] = a

HasPrefix(s, p) == Len(s) >= Len(p) /\ SubSeq(s, 1, Len(p)) = p

HasSuffix(s, e) == \E k \in 0..Len(s) : SubSeq(s, 1, k) \o e = s

Contains(s, sub) ==
    \E i \in 1..(Len(s) + 1) : HasPrefix(SubSeq(s, i, Len(s)), sub)

\* The values a Makefile assigns to variable `name`
Assigns(script, name) ==
    LET lhs == name \o " := "
        n == Len(lhs)
    IN  { SubSeq(script[i], n + 1, Len(script[i])) :
            i \in { j \in 1..Len(script) :
                      Len(script[j]) >= n /\ SubSeq(script[j], 1, n) = lhs } }

Lines(script) == { script[i] : i \in 1..Len(script) }

\* The Makefile this invocation left on disk
Script == fsfiles[makefile_path]

\* The Makefile the previous invocation left on disk, which is the
\* filesystem this invocation started on
PrevScript == fsfiles0[prev.path]

Loads == Deserializes(file)

ExpectedExt == IF file.language = "c" THEN ".c" ELSE ".cpp"

ExpectedSources == SelectSeq(file.files, LAMBDA f : HasSuffix(f, ExpectedExt))

ExpectedBuildDir == "build/" \o argv \o "-" \o file.architecture

ExpectedArchFlag ==
    CASE file.architecture = "x64" -> "-m64"
      [] file.architecture = "x86" -> "-m32"
      [] OTHER -> "-m" \o file.architecture

\* A configuration that has nothing wrong with it
Valid ==
    /\ Loads
    /\ file.language \in {"c", "c++"}
    /\ ExpectedSources # << >>

RECURSIVE Spaced(_)
Spaced(ss) ==
    IF ss = << >> THEN ""
    ELSE IF Len(ss) = 1 THEN ss[1]
    ELSE Spaced(SubSeq(ss, 1, Len(ss) - 1)) \o " " \o ss[Len(ss)]

-----------------------------------------------------------------------------
(* C1.  For every configuration whose language is neither "c" nor "c++",   *)
(* the run fails with the Unsupported Language error and, when it aborts,  *)
(* this run has created no directory and written no Makefile.              *)
C1_UnsupportedLanguageCreatesNothing ==
    (Done /\ Loads /\ file.language \notin {"c", "c++"} /\ outcome # "IOError")
        => /\ outcome = "UnsupportedLanguage"
           /\ dirs = dirs0
           /\ fsfiles = fsfiles0

-----------------------------------------------------------------------------
-----------------------------------------------------------------------------
(* C3.  Debug yields "-g -O0 -DDEBUG" and DEBUG "1", Release yields "-O2"  *)
(* and DEBUG "0".                                                          *)
ModeFlags ==
    outcome = "ok" =>
        IF argv = "debug"
        THEN /\ Assigns(Script, "DEBUG") = {"1"}
             /\ \A v \in Assigns(Script, "CFLAGS") : HasPrefix(v, "-g -O0 -DDEBUG ")
        ELSE /\ Assigns(Script, "DEBUG") = {"0"}
             /\ \A v \in Assigns(Script, "CFLAGS") : HasPrefix(v, "-O2 ")

\* Two successful runs on one configuration, one per mode
BothModes ==
    /\ runs > 1
    /\ outcome = "ok"
    /\ prev.outcome = "ok"
    /\ prev.file = file
    /\ prev.argv # argv

DiffersOnlyIn(names) ==
    /\ Len(Script) = Len(PrevScript)
    /\ \A i \in 1..Len(Script) :
          Script[i] # PrevScript[i]
              => \E n \in names : /\ HasPrefix(Script[i], n \o " := ")
                                  /\ HasPrefix(PrevScript[i], n \o " := ")

(* C3 as stated: the Debug and the Release script of one configuration     *)
(* differ only in the CFLAGS directive and the DEBUG indicator.            *)
C3_DiffersOnlyInFlags ==
    /\ ModeFlags
    /\ BothModes => DiffersOnlyIn({"CFLAGS", "DEBUG"})

(* C3 amended: they differ only in CFLAGS, DEBUG and in TARGET and OBJ_DIR,*)
(* which are rooted at build/<mode>-<architecture>; within TARGET and      *)
(* OBJ_DIR only that directory differs.                                    *)
C3_DiffersOnlyInModeFields ==
    /\ ModeFlags
    /\ BothModes =>
          /\ DiffersOnlyIn({"CFLAGS", "DEBUG", "TARGET", "OBJ_DIR"})
          /\ \A n \in {"TARGET", "OBJ_DIR"} :
               \E rest \in { SubSeq(v, Len(ExpectedBuildDir) + 1, Len(v)) :
                               v \in Assigns(Script, n) } :
                  /\ Assigns(Script, n) = { ExpectedBuildDir \o rest }
                  /\ Assigns(PrevScript, n) =
                        { "build/" \o prev.argv \o "-" \o file.architecture \o rest }

C3_Witness ==
    /\ Done
    /\ BothModes
    /\ argv = "release"
    /\ Script # PrevScript

-----------------------------------------------------------------------------
(* C4.  The end-to-end example.                                            *)
ExampleDoc ==
    [ language |-> "c", standard |-> 17, files |-> ExampleFiles,
      target |-> "app", architecture |-> "x64",
      model |-> [ debug |-> [targetdir |-> "out"] ] ]

ExampleDocWithRelease ==
    [ ExampleDoc EXCEPT !.model =
        [ debug |-> [targetdir |-> "out"], release |-> [targetdir |-> "out"] ] ]

ExampleOutput ==
    /\ outcome = "ok"
    /\ makefile_path = [dir |-> "build/debug-x64", name |-> "Makefile"]
    /\ makefile_path \in DOMAIN fsfiles
    /\ Assigns(Script, "SRC") = {"a.c c.c"}
    /\ Assigns(Script, "STD") = {"c17"}
    /\ Assigns(Script, "ARCH") = {"x64"}
    /\ Cardinality(Assigns(Script, "CFLAGS")) = 1
    /\ \A v \in Assigns(Script, "CFLAGS") :
          Contains(v, "-g -O0 -DDEBUG") /\ Contains(v, "-m64")

(* C4 as stated: with the example configuration, whose model table has     *)
(* only a debug entry, and mode debug, the run succeeds and writes         *)
(* build/debug-x64/Makefile with SRC "a.c c.c", STD "c17", ARCH "x64" and  *)
(* CFLAGS containing "-g -O0 -DDEBUG" and "-m64".                          *)
C4_ExampleSucceeds ==
    (Done /\ file = ExampleDoc /\ argv = "debug" /\ outcome # "IOError")
        => ExampleOutput

(* C4 amended: as written the example fails to load (Configuration Error,  *)
(* nothing created); with a model.release entry added it succeeds with the *)
(* stated output.                                                          *)
C4_ExampleNeedsReleaseEntry ==
    /\ (Done /\ file = ExampleDoc /\ argv = "debug")
          => /\ outcome = "ConfigurationError"
             /\ dirs = dirs0
             /\ fsfiles = fsfiles0
    /\ (Done /\ file = ExampleDocWithRelease /\ argv = "debug"
             /\ outcome # "IOError")
          => ExampleOutput

C4_Witness ==
    /\ Done
    /\ file = ExampleDocWithRelease
    /\ argv = "debug"
    /\ outcome = "ok"

-----------------------------------------------------------------------------
(* C5.  A generated script has CC gcc, STD c<standard> and ".c" in the     *)
(* object-list substitution and the pattern rule when the language is "c"; *)
(* g++, c++<standard> and ".cpp" when it is "c++".  No other language      *)
(* reaches rendering.                                                      *)
C5_LanguageSelectsToolchain ==
    /\ StepDone("render") => file.language \in {"c", "c++"}
    /\ outcome = "ok" =>
          LET cc == IF file.language = "c" THEN "gcc" ELSE "g++"
              other == IF file.language = "c" THEN ".cpp" ELSE ".c"
          IN  /\ Assigns(Script, "CC") = { cc }
              /\ Assigns(Script, "STD") = { file.language \o ToString(file.standard) }
              /\ Assigns(Script, "OBJ") =
                    { "$(addprefix $(OBJ_DIR)/, $(SRC:" \o ExpectedExt \o "=.o))" }
              /\ ("$(OBJ_DIR)/%.o: %" \o ExpectedExt) \in Lines(Script)
              /\ ("$(OBJ_DIR)/%.o: %" \o other) \notin Lines(Script)

C5_Witness ==
    /\ Done
    /\ outcome = "ok"
    /\ file.language = "c++"
    /\ file.standard = 20

-----------------------------------------------------------------------------
(* C6.  The architecture flag in CFLAGS and LDFLAGS is -m64 for x64, -m32  *)
(* for x86 and -m<s> for any other s; ARCH is the configured string; an    *)
(* unrecognized architecture never makes generation fail.                  *)
C6_ArchitectureFlag ==
    /\ outcome = "ok" =>
          /\ Assigns(Script, "LDFLAGS") = { ExpectedArchFlag }
          /\ Cardinality(Assigns(Script, "CFLAGS")) = 1
          /\ \A v \in Assigns(Script, "CFLAGS") :
                HasSuffix(v, " -std=$(STD) " \o ExpectedArchFlag)
          /\ Assigns(Script, "ARCH") = { file.architecture }
    /\ (Done /\ Valid /\ outcome # "IOError") => outcome = "ok"

C6_Witness ==
    /\ Done
    /\ outcome = "ok"
    /\ file.architecture = "arm"

-----------------------------------------------------------------------------
(* C7.  Idempotence: a second run with the same configuration and mode, on *)
(* the filesystem the first successful run left, succeeds (no I/O failure  *)
(* aside) and leaves the same Makefile with the same content.              *)
SameInputsAgain ==
    /\ runs > 1
    /\ prev.file = file
    /\ prev.argv = argv
    /\ prev.outcome = "ok"

\* C7: the second of two identical invocations leaves what the first left
C7_Idempotent ==
    (Done /\ SameInputsAgain)
        => /\ outcome \in {"ok", "IOError"}
           /\ outcome = "ok" =>
                 /\ makefile_path = prev.path
                 /\ Script = PrevScript
                 /\ fsfiles = fsfiles0
                 /\ dirs = dirs0

C7_Witness ==
    /\ Done
    /\ SameInputsAgain
    /\ outcome = "ok"

-----------------------------------------------------------------------------
(* C8.  The steps run in the order load, derive, render, write: nothing is *)
(* created or written on the filesystem before the language is validated,  *)
(* the sources filtered and the script rendered; an I/O failure can only   *)
(* abort the run after rendering; the path is printed after the write.     *)
C8_NoFilesystemEffectBeforeRender ==
    /\ \A w \in {"create_dir_all", "write"} :
          /\ Before("language", w)
          /\ Before("filter", w)
          /\ Before("render", w)
    /\ (dirs # dirs0 \/ fsfiles # fsfiles0) => StepDone("render")
    /\ outcome = "IOError" => StepDone("render")
    /\ Before("write", "print")

-----------------------------------------------------------------------------
(* C9.  SRC is exactly the entries of files that end with the extension,   *)
(* in their original order, duplicates kept, joined by single spaces, and  *)
(* is never empty.                                                         *)
C9_SourcesFiltered ==
    outcome = "ok" =>
        /\ files = ExpectedSources
        /\ files # << >>
        /\ Assigns(Script, "SRC") = { Spaced(ExpectedSources) }

C9_Witness ==
    /\ Done
    /\ outcome = "ok"
    /\ file.files = ExampleFiles

-----------------------------------------------------------------------------
(* C10.  The targetdir values have no effect: two runs in the same mode on *)
(* configurations that differ only in them have the same outcome, path and *)
(* Makefile; TARGET and OBJ_DIR are rooted at build/<mode>-<architecture>, *)
(* where the Makefile is written; both entries must be present to load.    *)
OnlyTargetdirsDiffer ==
    /\ runs > 1
    /\ prev.argv = argv
    /\ "model" \in DOMAIN file
    /\ "model" \in DOMAIN prev.file
    /\ [ file EXCEPT !.model = prev.file.model ] = prev.file

\* C10: outcome, path and Makefile do not depend on the targetdir values
C10_TargetdirIgnored ==
    /\ (Done /\ OnlyTargetdirsDiffer /\ outcome # "IOError"
             /\ prev.outcome # "IOError")
          => /\ outcome = prev.outcome
             /\ makefile_path = prev.path
             /\ makefile_content = prev.content
             /\ outcome = "ok" => Script = PrevScript
    /\ outcome = "ok" =>
          /\ makefile_path.dir = ExpectedBuildDir
          /\ Assigns(Script, "TARGET") =
                { ExpectedBuildDir \o "/" \o file.target
                      \o (IF windows THEN ".exe" ELSE "") }
          /\ Assigns(Script, "OBJ_DIR") = { ExpectedBuildDir \o "/obj" }
    /\ StepDone("load") => {"debug", "release"} \subseteq DOMAIN file.model

C10_Witness ==
    /\ Done
    /\ OnlyTargetdirsDiffer
    /\ file.model # prev.file.model
    /\ outcome = "ok"
    /\ prev.outcome = "ok"

=============================================================================
